---- MODULE Spec2Model ----
(***************************************************************************)
(* librosa.decompose: decompose, hpss and nn_filter as state machines.     *)
(*                                                                         *)
(* Numbers are exact rationals <<n, d>> (d > 0, lowest terms): the model   *)
(* follows the arithmetic of the code, not floating-point rounding.        *)
(* Arrays are 2-D, a sequence of rows; arrays are float (or complex)       *)
(* arrays, as the spectrograms of the module are.                          *)
(***************************************************************************)
EXTENDS Integers, Sequences, FiniteSets

VARIABLES
    pc,            \* position in the function being run
    err,           \* exception raised by the call, "none" while there is none
    ret,           \* value returned by the call, <<>> while there is none
    S,             \* argument S (hpss rebinds it to the magnitude)
    S0,            \* the caller's array S, as it was passed (ghost)
    dtype,         \* "float" or "complex": the dtype of the caller's array
    rec,           \* nn_filter: argument rec (<<>> is None)
    aggregate,     \* nn_filter: argument aggregate
    axis,          \* nn_filter: argument axis
    s_out,         \* nn_filter: local s_out
    i,             \* nn_filter: loop variable i (next row of rec to process)
    kernel_size,   \* hpss: argument kernel_size
    power,         \* hpss: argument power
    mask,          \* hpss: argument mask
    phase,         \* hpss: local phase
    harm,          \* hpss: local harm
    perc,          \* hpss: local perc
    mask_harm,     \* hpss: local mask_harm
    mask_perc,     \* hpss: local mask_perc
    n_components,  \* decompose: argument n_components (0 is None)
    transformer,   \* decompose: argument transformer, the factorizer object
    sort,          \* decompose: argument sort
    fit,           \* decompose: argument fit
    activations,   \* decompose: local activations
    components,    \* decompose: local components
    calls          \* decompose: factorizer operations invoked so far

vars == <<pc, err, ret, S, S0, dtype, rec, aggregate, axis, s_out, i,
          kernel_size, power, mask, phase, harm, perc, mask_harm, mask_perc,
          n_components, transformer, sort, fit, activations, components, calls>>

nnVars == <<rec, aggregate, axis, s_out, i>>
hpssVars == <<kernel_size, power, mask, phase, harm, perc, mask_harm, mask_perc>>
decVars == <<n_components, transformer, sort, fit, activations, components, calls>>

(***************************************************************************)
(* Bounds of the model.                                                    *)
(***************************************************************************)
MaxN == 2          \* nn_filter: largest array dimension and rec dimension
MaxW == 2          \* nn_filter: largest weight in rec
MaxVal == 2        \* hpss: largest magnitude of an entry of S
MaxWin == 3        \* hpss: largest kernel size
MaxPow == 2        \* hpss: largest exponent of the Wiener filter
MaxK == 2          \* decompose: largest number of components

(***************************************************************************)
(* Exact arithmetic.                                                       *)
(***************************************************************************)
Abs(x) == IF x < 0 THEN -x ELSE x

RECURSIVE GCD(_, _)
GCD(a, b) == IF b = 0 THEN a ELSE GCD(b, a % b)

Rat(n, d) ==
    LET s == IF d < 0 THEN -1 ELSE 1
        g == GCD(Abs(n), Abs(d))
    IN  <<(s * n) \div g, (s * d) \div g>>

R(v) == <<v, 1>>
RAdd(x, y) == Rat(x[1] * y[2] + y[1] * x[2], x[2] * y[2])
RSub(x, y) == Rat(x[1] * y[2] - y[1] * x[2], x[2] * y[2])
RMul(x, y) == Rat(x[1] * y[1], x[2] * y[2])
\* x / y; a zero divisor gives what numpy gives, inf (<<1, 0>>, <<-1, 0>>) or
\* nan (<<0, 0>>), with a warning and no exception
RDiv(x, y) ==
    IF y[1] = 0
    THEN <<IF x[1] > 0 THEN 1 ELSE IF x[1] < 0 THEN -1 ELSE 0, 0>>
    ELSE Rat(x[1] * y[2], x[2] * y[1])
RLt(x, y) == x[1] * y[2] < y[1] * x[2]
RLe(x, y) == x[1] * y[2] <= y[1] * x[2]

RECURSIVE RPow(_, _)
RPow(x, p) == IF p = 0 THEN R(1) ELSE RMul(x, RPow(x, p - 1))

RECURSIVE SumSeq(_)
SumSeq(s) == IF s = <<>> THEN R(0) ELSE RAdd(Head(s), SumSeq(Tail(s)))

RECURSIVE SumInts(_)
SumInts(s) == IF s = <<>> THEN 0 ELSE Head(s) + SumInts(Tail(s))

\* s sorted ascending (insertion sort)
RECURSIVE InsertSorted(_, _)
InsertSorted(x, s) ==
    IF s = <<>> THEN <<x>>
    ELSE IF RLe(x, Head(s)) THEN <<x>> \o s
    ELSE <<Head(s)>> \o InsertSorted(x, Tail(s))

RECURSIVE SortAsc(_)
SortAsc(s) == IF s = <<>> THEN <<>> ELSE InsertSorted(Head(s), SortAsc(Tail(s)))

(***************************************************************************)
(* 2-D arrays: a sequence of rows.                                         *)
(***************************************************************************)
NRows(A) == Len(A)
NCols(A) == IF Len(A) = 0 THEN 0 ELSE Len(A[1])
Shape(A) == <<NRows(A), NCols(A)>>
\* axis -1 of a 2-D array is its axis 1
NormAxis(ax) == IF ax < 0 THEN ax + 2 ELSE ax
ShapeAt(A, ax) == Shape(A)[NormAxis(ax) + 1]
Transpose(A) == [c \in 1..NCols(A) |-> [r \in 1..NRows(A) |-> A[r][c]]]

(***************************************************************************)
(* nn_filter                                                               *)
(***************************************************************************)
\* the slice of A at (0-based) index k along axis ax
Slice(A, ax, k) ==
    IF NormAxis(ax) = 0 THEN A[k + 1]
    ELSE [r \in 1..NRows(A) |-> A[r][k + 1]]

\* s_out[tuple(index)] = v, with index[axis] = k
SetSlice(A, ax, k, v) ==
    IF NormAxis(ax) = 0 THEN [A EXCEPT ![k + 1] = v]
    ELSE [r \in 1..NRows(A) |-> [A[r] EXCEPT ![k + 1] = v[r]]]

TargetsAllColumns(recm, k) == [c \in 1..Len(recm[k + 1]) |-> c - 1]

\* rec[i].nonzero()[-1]: the (0-based) columns of the nonzero entries of row
\* k, ascending as the row-compressed matrix stores them
RECURSIVE NonzeroFrom(_, _)
NonzeroFrom(row, c) ==
    IF c > Len(row) THEN <<>>
    ELSE (IF row[c] # 0 THEN <<c - 1>> ELSE <<>>) \o NonzeroFrom(row, c + 1)

Targets(recm, k) == NonzeroFrom(recm[k + 1], 1)

NeighborsFromOutput(A, out, targets, ax) ==
    [j \in 1..Len(targets) |-> Slice(out, ax, targets[j])]

\* np.take(S, targets, axis=axis): the neighbour slices, in the order of targets.
\* A is the input array, out the output in progress.
Neighbors(A, out, targets, ax) ==
    [j \in 1..Len(targets) |-> Slice(A, ax, targets[j])]

\* np.take raises IndexError on an index outside the axis
TakeOutOfRange(A, targets, ax) ==
    \E j \in 1..Len(targets) : targets[j] >= ShapeAt(A, ax)

\* rec[i, targets].toarray(): a 1 x k array of the entries at targets
RowEntries(recm, k, targets) ==
    [j \in 1..Len(targets) |-> recm[k + 1][targets[j] + 1]]

\* .squeeze(): every axis of length 1 is dropped, so the 1 x k array becomes
\* 1-D for k > 1 and 0-d (a scalar array) for k = 1
Squeeze(entries) ==
    [ndim |-> IF Len(entries) = 1 THEN 0 ELSE 1, data |-> entries]

\* np.average(a, axis, weights): with weights whose shape differs from a's,
\* numpy demands 1-D weights and raises TypeError otherwise
AverageRaises(weights) == weights.ndim # 1

\* the values at position k of each neighbour slice
Along(neighbors, k) == [j \in 1..Len(neighbors) |-> neighbors[j][k]]

NpMean(neighbors) ==
    [k \in 1..Len(neighbors[1]) |->
        RDiv(SumSeq(Along(neighbors, k)), R(Len(neighbors)))]

MedianOf(s) ==
    LET t == SortAsc(s)
        n == Len(t)
    IN  IF n % 2 = 1 THEN t[(n + 1) \div 2]
        ELSE RDiv(RAdd(t[n \div 2], t[n \div 2 + 1]), R(2))

NpMedian(neighbors) ==
    [k \in 1..Len(neighbors[1]) |-> MedianOf(Along(neighbors, k))]

NpMax(neighbors) ==
    [k \in 1..Len(neighbors[1]) |->
        LET t == SortAsc(Along(neighbors, k)) IN t[Len(t)]]

\* np.average with 1-D weights w: sum(w * a) / sum(w) along the axis
NpAverage(neighbors, w) ==
    [k \in 1..Len(neighbors[1]) |->
        RDiv(SumSeq([j \in 1..Len(neighbors) |-> RMul(R(w[j]), neighbors[j][k])]),
             R(SumInts(w)))]

\* aggregate(neighbors, axis=axis) for the reducers that take no weights
Reduce(agg, neighbors) ==
    CASE agg = "mean" -> NpMean(neighbors)
      [] agg = "median" -> NpMedian(neighbors)
      [] agg = "max" -> NpMax(neighbors)

InvalidRecShapeRowsOnly(recm, A, ax) == NRows(recm) # ShapeAt(A, ax)

\* rec.shape[0] != S.shape[axis] or rec.shape[0] != rec.shape[1]
InvalidRecShape(recm, A, ax) ==
    NRows(recm) # ShapeAt(A, ax) \/ NRows(recm) # NCols(recm)

Aggregates == {"None", "median", "max", "average"}

Nnz(m) == Cardinality({p \in (1..NRows(m)) \X (1..NCols(m)) : m[p[1]][p[2]] # 0})

\* square similarity graphs with weights 0..MaxW and at most MaxN edges
SquareRecs(n) ==
    {m \in [1..n -> [1..n -> 0..MaxW]] : Nnz(m) <= MaxN}

NonSquareRecs ==
    {[r \in 1..a |-> [c \in 1..b |-> 1]] :
        <<a, b>> \in {p \in (1..MaxN) \X (1..MaxN) : p[1] # p[2]}}

Recs == UNION {SquareRecs(n) : n \in 1..MaxN} \cup NonSquareRecs

\* the float array np.arange(d0 * d1).reshape(d0, d1)
Arange(d0, d1) == [r \in 1..d0 |-> [c \in 1..d1 |-> R((r - 1) * d1 + (c - 1))]]

NnArrays == {Arange(p[1], p[2]) : p \in (1..MaxN) \X (1..MaxN)}

NoHpss ==
    /\ kernel_size = <<>> /\ power = 0 /\ mask = FALSE /\ phase = <<>>
    /\ harm = <<>> /\ perc = <<>> /\ mask_harm = <<>> /\ mask_perc = <<>>

NoDecompose ==
    /\ n_components = 0 /\ transformer = <<>> /\ sort = FALSE /\ fit = FALSE
    /\ activations = <<>> /\ components = <<>> /\ calls = <<>>

NoNn ==
    /\ rec = <<>> /\ aggregate = "None" /\ axis = 0 /\ s_out = <<>> /\ i = 0

\* segment.recurrence_matrix(S, axis=axis, sparse=True): a square graph over
\* the slices of A along ax, binary, no point its own neighbour
RecurrenceMatrix(A, ax) ==
    {m \in [1..ShapeAt(A, ax) -> [1..ShapeAt(A, ax) -> 0..1]] :
        \A k \in 1..ShapeAt(A, ax) : m[k][k] = 0}

InitNn ==
    /\ pc = "nn_start" /\ err = "none" /\ ret = <<>>
    /\ S \in NnArrays /\ S0 = S /\ dtype = "float"
    /\ rec \in Recs \cup {<<>>}
    /\ aggregate \in Aggregates
    /\ axis \in {-1, 0}
    /\ s_out = <<>> /\ i = 0
    /\ NoHpss /\ NoDecompose

\* lines 450-465: default aggregate, shape validation, s_out = S.copy()
NnValidate ==
    /\ pc = "nn_start"
    /\ aggregate' = IF aggregate = "None" THEN "mean" ELSE aggregate
    /\ \E built \in (IF rec = <<>> THEN RecurrenceMatrix(S, axis) ELSE {rec}) :
        /\ rec' = built
        /\ IF InvalidRecShape(built, S, axis)
           THEN /\ err' = "ParameterError"
                /\ pc' = "done"
                /\ UNCHANGED <<s_out, i>>
           ELSE /\ s_out' = S
                /\ i' = 0
                /\ pc' = "nn_loop"
                /\ err' = err
    /\ UNCHANGED <<ret, S, S0, dtype, axis, hpssVars, decVars>>

\* lines 469-483: one iteration of the loop over the rows of rec
NnIterate ==
    /\ pc = "nn_loop"
    /\ i < NRows(rec)
    /\ LET targets == Targets(rec, i)
           neighbors == Neighbors(S, s_out, targets, axis)
           weights == Squeeze(RowEntries(rec, i, targets))
       IN  IF Len(targets) = 0
           THEN /\ i' = i + 1
                /\ UNCHANGED <<s_out, pc, err>>
           ELSE IF TakeOutOfRange(S, targets, axis)
           THEN /\ err' = "IndexError"
                /\ pc' = "done"
                /\ UNCHANGED <<s_out, i>>
           ELSE IF aggregate = "average"
           THEN IF AverageRaises(weights)
                THEN /\ err' = "TypeError"
                     /\ pc' = "done"
                     /\ UNCHANGED <<s_out, i>>
                ELSE /\ s_out' = SetSlice(s_out, axis, i,
                                          NpAverage(neighbors, weights.data))
                     /\ i' = i + 1
                     /\ UNCHANGED <<pc, err>>
           ELSE /\ s_out' = SetSlice(s_out, axis, i, Reduce(aggregate, neighbors))
                /\ i' = i + 1
                /\ UNCHANGED <<pc, err>>
    /\ UNCHANGED <<ret, S, S0, dtype, rec, aggregate, axis, hpssVars, decVars>>

\* line 485: return s_out
NnReturn ==
    /\ pc = "nn_loop"
    /\ i = NRows(rec)
    /\ ret' = s_out
    /\ pc' = "done"
    /\ UNCHANGED <<err, S, S0, dtype, rec, aggregate, axis, s_out, i, hpssVars, decVars>>

NextNn == NnValidate \/ NnIterate \/ NnReturn

SpecNn == InitNn /\ [][NextNn]_vars

(***************************************************************************)
(* hpss                                                                    *)
(*                                                                         *)
(* A float array holds rationals; a complex array holds pairs <<re, im>>   *)
(* of rationals.                                                           *)
(***************************************************************************)
CScale(q, z) == <<RMul(q, z[1]), RMul(q, z[2])>>
CAdd(z, w) == <<RAdd(z[1], w[1]), RAdd(z[2], w[2])>>
RAbs(x) == <<Abs(x[1]), x[2]>>

\* core.magphase(D): the magnitude |D| and the unit-modulus phase
\* exp(1j * angle(D)), which is 1 where D is 0. The entries of the model lie
\* on the real or the imaginary axis, where |re + j im| = |re| + |im|.
Magnitude(z) == RAdd(RAbs(z[1]), RAbs(z[2]))
UnitPhase(z) ==
    IF Magnitude(z) = R(0) THEN <<R(1), R(0)>>
    ELSE <<RDiv(z[1], Magnitude(z)), RDiv(z[2], Magnitude(z))>>
Magnitudes(A) == [r \in 1..NRows(A) |-> [c \in 1..NCols(A) |-> Magnitude(A[r][c])]]
UnitPhases(A) == [r \in 1..NRows(A) |-> [c \in 1..NCols(A) |-> UnitPhase(A[r][c])]]

\* a kernel size is a scalar or a pair; each size is a rational
IsScalar(ks) == ks.scalar
WinHarm(ks) == ks.v[1]
WinPercFromHarm(ks) == ks.v[1]
WinPerc(ks) == IF IsScalar(ks) THEN ks.v[1] ELSE ks.v[2]

\* scipy.ndimage.median_filter's use of one entry of size: 0 stands for "the
\* filter raises". A size below 1 raises (an empty or negative footprint); a
\* non-integer size raises, or is truncated by a numpy that still takes float
\* dimensions (truncates), and then raises if it truncates to 0.
FilterSize(win, truncates) ==
    IF win[2] = 1 THEN (IF win[1] >= 1 THEN win[1] ELSE 0)
    ELSE IF truncates /\ win[1] >= win[2] THEN win[1] \div win[2]
    ELSE 0

\* mode='reflect': (d c b a | a b c d | d c b a), on 0-based index k of n
Reflect(k, n) ==
    LET q == k % (2 * n) IN IF q < n THEN q ELSE 2 * n - 1 - q

\* the median filter of one row with a window of win entries: the window of
\* entry c starts win // 2 entries before it, and the median is the entry of
\* rank win // 2 of the sorted window
FilterRow(row, win) ==
    [c \in 1..Len(row) |->
        SortAsc([k \in 1..win |->
            row[Reflect((c - 1) + (k - 1) - (win \div 2), Len(row)) + 1]])
        [win \div 2 + 1]]

\* median_filter(S, size=(1, win), mode='reflect'): along the time axis
MedianFilterTime(A, win) == [r \in 1..NRows(A) |-> FilterRow(A[r], win)]

\* median_filter(S, size=(win, 1), mode='reflect'): along the frequency axis
MedianFilterFreq(A, win) == Transpose(MedianFilterTime(Transpose(A), win))

\* x < util.SMALL_FLOAT, the small positive threshold of the library: every
\* number of the model is a rational with a small denominator, which is below
\* the threshold exactly when it is not positive
BelowSmallFloat(x) == x[1] <= 0

HardMaskTiesHarmonic(h, p) ==
    [r \in 1..NRows(h) |-> [c \in 1..NCols(h) |->
        IF RLe(p[r][c], h[r][c]) THEN R(1) ELSE R(0)]]

\* (harm > perc).astype(float)
HardMask(h, p) ==
    [r \in 1..NRows(h) |-> [c \in 1..NCols(h) |->
        IF RLt(p[r][c], h[r][c]) THEN R(1) ELSE R(0)]]

\* 1 - mask_harm
OneMinus(m) == [r \in 1..NRows(m) |-> [c \in 1..NCols(m) |-> RSub(R(1), m[r][c])]]

\* x = x ** power; x[x < SMALL_FLOAT] = 0.0
PowerClamped(A, p) ==
    [r \in 1..NRows(A) |-> [c \in 1..NCols(A) |->
        IF BelowSmallFloat(RPow(A[r][c], p)) THEN R(0) ELSE RPow(A[r][c], p)]]

\* zero_x = (x ** power < SMALL_FLOAT)
ZeroAt(A, p) ==
    [r \in 1..NRows(A) |-> [c \in 1..NCols(A) |-> BelowSmallFloat(RPow(A[r][c], p))]]

EqualizeSkipped(A, zh, zp) == A

\* x[zero_harm & zero_perc] = 0.5
Equalize(A, zh, zp) ==
    [r \in 1..NRows(A) |-> [c \in 1..NCols(A) |->
        IF zh[r][c] /\ zp[r][c] THEN <<1, 2>> ELSE A[r][c]]]

\* x / (harm + perc)
Normalized(x, h, p) ==
    [r \in 1..NRows(x) |-> [c \in 1..NCols(x) |->
        RDiv(x[r][c], RAdd(h[r][c], p[r][c]))]]

ApplyMaskNoPhase(A, m, ph, dt) ==
    [r \in 1..NRows(A) |-> [c \in 1..NCols(A) |->
        IF dt = "complex" THEN <<RMul(A[r][c], m[r][c]), R(0)>>
        ELSE RMul(A[r][c], m[r][c])]]

\* (S * mask) * phase: phase is the scalar 1 for a float input and the array
\* of unit phases for a complex one
ApplyMask(A, m, ph, dt) ==
    [r \in 1..NRows(A) |-> [c \in 1..NCols(A) |->
        IF dt = "complex" THEN CScale(RMul(A[r][c], m[r][c]), ph[r][c])
        ELSE RMul(RMul(A[r][c], m[r][c]), ph)]]

\* float arrays of shape 2 x 2 and 1 x 3 with entries -1..MaxVal; complex
\* arrays of shape 2 x 2 with entries 0, 1, -1 and MaxVal j
FloatEntries == {R(v) : v \in (-1)..MaxVal}
ComplexEntries ==
    {<<R(0), R(0)>>, <<R(1), R(0)>>, <<R(-1), R(0)>>, <<R(0), R(MaxVal)>>}
FloatArrays ==
    [1..2 -> [1..2 -> FloatEntries]] \cup [1..1 -> [1..3 -> FloatEntries]]
ComplexArrays == [1..2 -> [1..2 -> ComplexEntries]]

\* kernel sizes: scalars -1..MaxWin and 3/2, and pairs, well-formed or not
KernelSizes ==
    {[scalar |-> TRUE, v |-> <<R(w)>>] : w \in (-1)..MaxWin}
    \cup {[scalar |-> TRUE, v |-> <<<<3, 2>>>>]}
    \cup {[scalar |-> FALSE, v |-> p] :
            p \in {<<R(1), R(MaxWin)>>, <<R(MaxWin), R(2)>>, <<R(MaxWin), R(0)>>,
                   <<<<3, 2>>, R(1)>>}}

Powers == 0..MaxPow

InitHpss ==
    /\ pc = "hpss_start" /\ err = "none" /\ ret = <<>>
    /\ dtype \in {"float", "complex"}
    /\ S \in (IF dtype = "float" THEN FloatArrays ELSE ComplexArrays)
    /\ S0 = S
    /\ kernel_size \in KernelSizes
    /\ power \in Powers
    /\ mask \in BOOLEAN
    /\ phase = <<>> /\ harm = <<>> /\ perc = <<>>
    /\ mask_harm = <<>> /\ mask_perc = <<>>
    /\ NoNn /\ NoDecompose

\* lines 293-296: S, phase = core.magphase(S) for a complex S, else phase = 1
HpssMagphase ==
    /\ pc = "hpss_start"
    /\ IF dtype = "complex"
       THEN /\ S' = Magnitudes(S)
            /\ phase' = UnitPhases(S)
       ELSE /\ S' = S
            /\ phase' = R(1)
    /\ pc' = "hpss_filter"
    /\ UNCHANGED <<err, ret, S0, dtype, kernel_size, power, mask, harm, perc,
                   mask_harm, mask_perc, nnVars, decVars>>

\* lines 298-310: the kernel sizes and the two median filters; hpss checks
\* neither size, and a size the filter refuses ends the call with the filter's
\* own exception (RuntimeError, ValueError or TypeError)
HpssFilter ==
    /\ pc = "hpss_filter"
    /\ \E truncates \in BOOLEAN :
        LET wh == FilterSize(WinHarm(kernel_size), truncates)
            wp == FilterSize(WinPerc(kernel_size), truncates)
        IN  IF wh = 0 \/ wp = 0
            THEN /\ err' = "FilterError"
                 /\ pc' = "done"
                 /\ UNCHANGED <<harm, perc>>
            ELSE /\ harm' = MedianFilterTime(S, wh)
                 /\ perc' = MedianFilterFreq(S, wp)
                 /\ pc' = "hpss_mask"
                 /\ err' = err
    /\ UNCHANGED <<ret, S, S0, dtype, kernel_size, power, mask, phase,
                   mask_harm, mask_perc, nnVars, decVars>>

\* lines 312-316: the hard mask, returned as it is when mask is set
HpssHardMask ==
    /\ pc = "hpss_mask"
    /\ mask \/ BelowSmallFloat(R(power))
    /\ mask_harm' = HardMask(harm, perc)
    /\ mask_perc' = OneMinus(HardMask(harm, perc))
    /\ IF mask
       THEN /\ ret' = <<mask_harm', mask_perc'>>
            /\ pc' = "done"
       ELSE /\ ret' = ret
            /\ pc' = "hpss_return"
    /\ UNCHANGED <<err, S, S0, dtype, kernel_size, power, mask, phase, harm, perc,
                   nnVars, decVars>>

\* lines 317-332: the soft mask
HpssSoftMask ==
    /\ pc = "hpss_mask"
    /\ ~(mask \/ BelowSmallFloat(R(power)))
    /\ LET zero_perc == ZeroAt(perc, power)
           zero_harm == ZeroAt(harm, power)
           h == Equalize(PowerClamped(harm, power), zero_harm, zero_perc)
           p == Equalize(PowerClamped(perc, power), zero_harm, zero_perc)
       IN  /\ harm' = h
           /\ perc' = p
           /\ mask_harm' = Normalized(h, h, p)
           /\ mask_perc' = Normalized(p, h, p)
    /\ pc' = "hpss_return"
    /\ UNCHANGED <<err, ret, S, S0, dtype, kernel_size, power, mask, phase,
                   nnVars, decVars>>

\* line 334: return ((S * mask_harm) * phase, (S * mask_perc) * phase)
HpssReturn ==
    /\ pc = "hpss_return"
    /\ ret' = <<ApplyMask(S, mask_harm, phase, dtype),
                ApplyMask(S, mask_perc, phase, dtype)>>
    /\ pc' = "done"
    /\ UNCHANGED <<err, S, S0, dtype, kernel_size, power, mask, phase, harm, perc,
                   mask_harm, mask_perc, nnVars, decVars>>

NextHpss == HpssMagphase \/ HpssFilter \/ HpssHardMask \/ HpssSoftMask \/ HpssReturn

SpecHpss == InitHpss /\ [][NextHpss]_vars

(***************************************************************************)
(* decompose                                                               *)
(*                                                                         *)
(* The factorizer is an object with fit_transform, transform and a         *)
(* components_ attribute. What it computes is its own business: its        *)
(* results are any arrays of the right shape.                              *)
(***************************************************************************)
FactorEntries == {R(0), R(1), R(2)}
ActivationEntries == {R(1), R(2)}
\* components_ of a factorizer: n_components x n_features
ComponentArrays(k, f) == [1..k -> [1..f -> FactorEntries]]
\* the result of fit_transform(X) and transform(X): n_samples x n_components
TransformedArrays(n, k) == [1..n -> [1..k -> ActivationEntries]]
ZeroArray(k, f) == [r \in 1..k |-> [c \in 1..f |-> R(0)]]

\* fit is False
FitIsFalseNever(f) == FALSE
FitIsFalse(f) == f = "False"
\* if fit:
Truthy(f) == f = "True"

\* sklearn.decomposition.NMF(n_components=n): not fitted; n_components=None
\* keeps every feature
NewNMF(n, A) ==
    [kind |-> "NMF", k |-> IF n = 0 THEN NRows(A) ELSE n,
     fitted |-> FALSE, components_ |-> <<>>]

Dot(A, B) ==
    [r \in 1..NRows(A) |-> [c \in 1..NCols(B) |->
        SumSeq([k \in 1..NCols(A) |-> RMul(A[r][k], B[k][c])])]]

\* np.argmax along the feature axis: the first row holding the column's maximum
ArgMax(A, c) ==
    CHOOSE r \in 1..NRows(A) :
        /\ \A q \in 1..NRows(A) : RLe(A[q][c], A[r][c])
        /\ \A q \in 1..(r - 1) : A[q][c] # A[r][c]

Permutations(n) ==
    {f \in [1..n -> 1..n] : \A a, b \in 1..n : f[a] = f[b] => a = b}

\* util.axis_sort(components, index=True): the orders idx of the columns by
\* ascending row of their peak; columns whose peaks tie come in either order
AxisSortIndices(A) ==
    {idx \in Permutations(NCols(A)) :
        \A a, b \in 1..NCols(A) :
            a < b => ArgMax(A, idx[a]) <= ArgMax(A, idx[b])}

\* components[:, idx]
TakeColumns(A, idx) == [r \in 1..NRows(A) |-> [c \in 1..Len(idx) |-> A[r][idx[c]]]]

ActivationsLeftUnsorted(acts, idx) == acts

\* activations[idx]
SortedActivations(acts, idx) == [r \in 1..Len(idx) |-> acts[idx[r]]]

Fits == {"True", "False", "0"}

\* the factorizers a caller passes: none, one not fitted yet, or a fitted one
Transformers(f) ==
    {[kind |-> "None", k |-> 0, fitted |-> FALSE, components_ |-> <<>>]}
    \cup {[kind |-> "supplied", k |-> k, fitted |-> FALSE, components_ |-> <<>>] :
            k \in 1..MaxK}
    \cup UNION {{[kind |-> "supplied", k |-> k, fitted |-> TRUE, components_ |-> c] :
                    c \in ComponentArrays(k, f)} : k \in 1..MaxK}

\* S has 2 features and 1 frame. A fitted factorizer passed to be fitted again
\* holds stale components, all zero.
InitDecompose ==
    /\ pc = "dec_start" /\ err = "none" /\ ret = <<>>
    /\ S = Arange(2, 1) /\ S0 = S /\ dtype = "float"
    /\ n_components \in {0, MaxK}
    /\ transformer \in Transformers(NRows(S))
    /\ sort \in BOOLEAN
    /\ fit \in Fits
    /\ (Truthy(fit) /\ transformer.fitted)
          => transformer.components_ = ZeroArray(transformer.k, NRows(S))
    /\ activations = <<>> /\ components = <<>> /\ calls = <<>>
    /\ NoNn /\ NoHpss

\* lines 165-173: the default factorizer, and the default n_components
DecConstruct ==
    /\ pc = "dec_start"
    /\ IF transformer.kind = "None"
       THEN IF FitIsFalse(fit)
            THEN /\ err' = "ParameterError"
                 /\ pc' = "done"
                 /\ UNCHANGED <<transformer, n_components, calls>>
            ELSE /\ transformer' = NewNMF(n_components, S)
                 /\ calls' = Append(calls, "NMF")
                 /\ n_components' = IF n_components = 0 THEN NRows(S) ELSE n_components
                 /\ pc' = "dec_fit"
                 /\ err' = err
       ELSE /\ n_components' = IF n_components = 0 THEN NRows(S) ELSE n_components
            /\ pc' = "dec_fit"
            /\ UNCHANGED <<transformer, calls, err>>
    /\ UNCHANGED <<ret, S, S0, dtype, sort, fit, activations, components,
                   nnVars, hpssVars>>

\* lines 175-180: fit_transform or transform on S.T, and components_.T; a
\* factorizer that was never fitted refuses transform (NotFittedError)
DecFit ==
    /\ pc = "dec_fit"
    /\ IF Truthy(fit)
       THEN \E c \in ComponentArrays(transformer.k, NRows(S)) :
            \E w \in TransformedArrays(NCols(S), transformer.k) :
                /\ transformer' = [transformer EXCEPT !.fitted = TRUE,
                                                      !.components_ = c]
                /\ calls' = Append(calls, "fit_transform")
                /\ activations' = Transpose(w)
                /\ components' = Transpose(c)
                /\ pc' = "dec_sort"
                /\ err' = err
       ELSE IF ~transformer.fitted
            THEN /\ calls' = Append(calls, "transform")
                 /\ err' = "NotFittedError"
                 /\ pc' = "done"
                 /\ UNCHANGED <<transformer, activations, components>>
            ELSE \E w \in TransformedArrays(NCols(S), transformer.k) :
                /\ calls' = Append(calls, "transform")
                /\ activations' = Transpose(w)
                /\ components' = Transpose(transformer.components_)
                /\ pc' = "dec_sort"
                /\ UNCHANGED <<transformer, err>>
    /\ UNCHANGED <<ret, S, S0, dtype, n_components, sort, fit, nnVars, hpssVars>>

\* lines 182-186: the optional sort, and the return
DecReturn ==
    /\ pc = "dec_sort"
    /\ IF sort
       THEN \E idx \in AxisSortIndices(components) :
                /\ components' = TakeColumns(components, idx)
                /\ activations' = SortedActivations(activations, idx)
       ELSE UNCHANGED <<components, activations>>
    /\ ret' = <<components', activations'>>
    /\ pc' = "done"
    /\ UNCHANGED <<err, S, S0, dtype, n_components, transformer, sort, fit, calls,
                   nnVars, hpssVars>>

NextDecompose == DecConstruct \/ DecFit \/ DecReturn

SpecDecompose == InitDecompose /\ [][NextDecompose]_vars

(***************************************************************************)
(* Properties of nn_filter                                                 *)
(***************************************************************************)
RowIndices == 0..(NRows(rec) - 1)
RowIsZero(k) == \A c \in 1..NCols(rec) : rec[k + 1][c] = 0
\* the (0-based) columns of the nonzero entries of row k, as a set
NonzeroCols(k) == {c \in 0..(NCols(rec) - 1) : rec[k + 1][c + 1] # 0}
ShapeIsBad == NRows(rec) # NCols(rec) \/ NRows(rec) # ShapeAt(S0, axis)
Returned == pc = "done" /\ err = "none"

\* C1: a supplied rec that is not square, or whose dimension differs from the
\* length of S along axis, ends the call with ParameterError before s_out is
\* made or any slice aggregated; nothing is returned and S is as passed.
C1_BadShapeRejected ==
    (pc # "nn_start" /\ ShapeIsBad) =>
        /\ pc = "done" /\ err = "ParameterError"
        /\ ret = <<>> /\ s_out = <<>> /\ i = 0
        /\ S = S0

C1_Witness ==
    /\ pc = "done" /\ err = "ParameterError"
    /\ NRows(rec) = NCols(rec) /\ NRows(rec) # ShapeAt(S0, axis)

\* the weighted mean of the original slices at the nonzero columns of row k,
\* the weights being the entries of row k, normalised to sum to 1
WeightedMeanOfRow(k) ==
    [r \in 1..Len(Slice(S0, axis, 0)) |->
        LET cols == NonzeroCols(k)
            RECURSIVE Total(_), Weighted(_)
            Total(cs) == IF cs = {} THEN 0
                         ELSE LET c == CHOOSE x \in cs : TRUE
                              IN  rec[k + 1][c + 1] + Total(cs \ {c})
            Weighted(cs) == IF cs = {} THEN R(0)
                            ELSE LET c == CHOOSE x \in cs : TRUE
                                 IN  RAdd(RMul(Rat(rec[k + 1][c + 1], Total(cols)),
                                               Slice(S0, axis, c)[r]),
                                          Weighted(cs \ {c}))
        IN  Weighted(cols)]

\* C2: with aggregate = np.average, every row of rec with at least one nonzero
\* entry (rows with exactly one included) gives an output slice equal to the
\* weighted mean of its neighbours' slices; the call does not fail on it.
C2_WeightedAverage ==
    (aggregate = "average" /\ pc # "nn_start" /\ ~ShapeIsBad) =>
        /\ err = "none"
        /\ \A k \in RowIndices :
              (k < i /\ ~RowIsZero(k)) =>
                  Slice(s_out, axis, k) = WeightedMeanOfRow(k)

\* C3: a slice whose row of rec has no nonzero entry is never changed; the
\* returned array has the shape of S, and is S when rec is all zero.
C3_EmptyRowsUnchanged ==
    /\ pc = "nn_loop" =>
          \A k \in RowIndices :
              RowIsZero(k) => Slice(s_out, axis, k) = Slice(S0, axis, k)
    /\ Returned =>
          /\ Shape(ret) = Shape(S0)
          /\ \A k \in RowIndices :
                RowIsZero(k) => Slice(ret, axis, k) = Slice(S0, axis, k)
          /\ (\A k \in RowIndices : RowIsZero(k)) => ret = S0

C3_Witness ==
    /\ Returned
    /\ \E k \in RowIndices : RowIsZero(k)
    /\ \E k \in RowIndices : Slice(ret, axis, k) # Slice(S0, axis, k)

\* what row k of rec makes of the original array A: the aggregate of the
\* slices of A at the nonzero columns of the row
FilteredSlice(A, k) ==
    LET t == Targets(rec, k)
        nb == [j \in 1..Len(t) |-> Slice(A, axis, t[j])]
    IN  IF aggregate = "average" THEN NpAverage(nb, RowEntries(rec, k, t))
        ELSE Reduce(aggregate, nb)

ExpectedSlice(k, done) ==
    IF k < done /\ ~RowIsZero(k) THEN FilteredSlice(S0, k) ELSE Slice(S0, axis, k)

\* C10: output slice k is a function of the original S and row k of rec alone:
\* at every point of the loop the slices written so far are the aggregates of
\* ORIGINAL slices, whatever has been overwritten in s_out meanwhile, and S
\* itself is never written.
C10_SlicesFromOriginal ==
    /\ S = S0
    /\ pc = "nn_loop" =>
          \A k \in RowIndices : Slice(s_out, axis, k) = ExpectedSlice(k, i)
    /\ Returned =>
          \A k \in RowIndices : Slice(ret, axis, k) = ExpectedSlice(k, NRows(rec))

\* a row was aggregated after one of its neighbours had been overwritten
C10_Witness ==
    /\ Returned
    /\ \E k \in RowIndices : \E j \in NonzeroCols(k) :
          j < k /\ Slice(ret, axis, j) # Slice(S0, axis, j)

(***************************************************************************)
(* Properties of hpss                                                      *)
(***************************************************************************)
Positions == (1..NRows(S0)) \X (1..NCols(S0))
IsFinite(x) == x[2] # 0
InUnitInterval(x) == IsFinite(x) /\ RLe(R(0), x) /\ RLe(x, R(1))
\* the filter responses on the magnitude: the median along time (harmonic)
\* and along frequency (percussive), for the sizes the filters ran with
TimeResponse == MedianFilterTime(S, FilterSize(kernel_size.v[1], TRUE))
FreqResponse ==
    MedianFilterFreq(S, FilterSize(kernel_size.v[Len(kernel_size.v)], TRUE))
HpssReturned == pc = "done" /\ err = "none"
\* the soft-mask branch has run
SoftMasked ==
    /\ pc = "hpss_return" \/ HpssReturned
    /\ ~mask /\ power >= 1

C6_HardMasks ==
    (HpssReturned /\ mask) =>
        /\ ret = <<mask_harm, mask_perc>>
        /\ \A q \in Positions :
              LET mh == ret[1][q[1]][q[2]]
                  mp == ret[2][q[1]][q[2]]
              IN  /\ mh \in {R(0), R(1)}
                  /\ mh = R(1) <=>
                        RLt(FreqResponse[q[1]][q[2]], TimeResponse[q[1]][q[2]])
                  /\ mp = RSub(R(1), mh)

\* a tie between two nonzero responses, beside a harmonic position, for a
\* complex input and a power that would otherwise give a soft mask
C6_Witness ==
    /\ HpssReturned /\ mask /\ power >= 1 /\ dtype = "complex"
    /\ \E q \in Positions :
          /\ TimeResponse[q[1]][q[2]] = FreqResponse[q[1]][q[2]]
          /\ TimeResponse[q[1]][q[2]] # R(0)
          /\ ret[1][q[1]][q[2]] = R(0)
    /\ \E q \in Positions : ret[1][q[1]][q[2]] = R(1)

KernelEntries == {kernel_size.v[k] : k \in 1..Len(kernel_size.v)}
IsMalformed(w) == w[2] # 1 \/ w[1] < 1
IsNonPositive(w) == w[2] = 1 /\ w[1] < 1
MalformedKernel == \E w \in KernelEntries : IsMalformed(w)

\* C9 as claimed: a malformed kernel size ends the call with a parameter
\* validation error and no result.
C9_ParameterError ==
    (MalformedKernel /\ pc = "done") => (err = "ParameterError" /\ ret = <<>>)

\* C9 as amended: hpss never raises ParameterError for a malformed kernel
\* size; a non-positive size (the scalar, or either entry of a pair) ends the
\* call with the median filter's own exception before any mask is built and
\* nothing is returned, as does any size the filter refuses.
C9_FilterRejects ==
    MalformedKernel =>
        /\ err # "ParameterError"
        /\ ((\E w \in KernelEntries : IsNonPositive(w))
              /\ pc \notin {"hpss_start", "hpss_filter"})
           => (pc = "done" /\ err = "FilterError")
        /\ err = "FilterError" =>
              (ret = <<>> /\ harm = <<>> /\ perc = <<>> /\ mask_harm = <<>>
                /\ mask_perc = <<>>)

C9_Witness ==
    /\ pc = "done" /\ err = "FilterError"
    /\ ~IsScalar(kernel_size)
    /\ IsNonPositive(kernel_size.v[2])

(***************************************************************************)
(* Properties of decompose                                                 *)
(***************************************************************************)
InSeq(x, q) == \E k \in 1..Len(q) : q[k] = x

\* C7: with fit=False and no transformer the call ends with ParameterError
\* before a factorizer is constructed or invoked and returns nothing; with a
\* supplied transformer and fit=False the only operation invoked is transform.
C7_FitFalse ==
    /\ (fit = "False" /\ transformer.kind # "supplied" /\ pc # "dec_start") =>
          /\ pc = "done" /\ err = "ParameterError"
          /\ transformer.kind = "None" /\ calls = <<>>
          /\ ret = <<>> /\ components = <<>> /\ activations = <<>>
    /\ (fit = "False" /\ transformer.kind = "supplied") =>
          /\ ~InSeq("fit_transform", calls) /\ ~InSeq("NMF", calls)
          /\ pc \in {"dec_sort", "done"} => calls = <<"transform">>

C7_Witness ==
    /\ pc = "done" /\ err = "ParameterError"
    /\ transformer.kind = "None" /\ fit = "False"

\* C8: the sort step replaces components by its columns in an order idx and
\* activations by its rows in the same order idx, idx ordering the components
\* by ascending row of their peak; the product components . activations is
\* the product of the unsorted pair, and the pair is what is returned.
C8_SortKeepsPairing ==
    [][(pc = "dec_sort" /\ sort /\ pc' = "done") =>
        /\ \E idx \in Permutations(NCols(components)) :
              /\ components' = [r \in 1..NRows(components) |->
                                  [c \in 1..NCols(components) |-> components[r][idx[c]]]]
              /\ activations' = [r \in 1..NRows(activations) |-> activations[idx[r]]]
        /\ \A a, b \in 1..NCols(components') :
              a < b => ArgMax(components', a) <= ArgMax(components', b)
        /\ Dot(components', activations') = Dot(components, activations)
        /\ ret' = <<components', activations'>>]_vars

\* a sort that moved a component: the returned components are not the
\* factorizer's in their own order, and the activation rows differ
C8_Witness ==
    /\ pc = "done" /\ err = "none" /\ sort
    /\ ret[1] # Transpose(transformer.components_)
    /\ \E a, b \in 1..NRows(ret[2]) : ret[2][a] # ret[2][b]

====
